---- MODULE Spec2Model ----
(***************************************************************************)
(* A model of the EMU64 interpreter core of src/hdremu.py: N64Memory       *)
(* (address translation, bounds-checked big-endian word access) and        *)
(* MIPSR4300i (reset, fetch, decode_execute, _special, step).              *)
(*                                                                         *)
(* Python integers are unbounded and the code masks them by hand, so a     *)
(* number is modelled as an unbounded natural: the little-endian sequence  *)
(* of its base-256 digits with no leading zero digit (zero is << >>).      *)
(* Every arithmetic operator below works on that representation, so the    *)
(* 32-bit and 64-bit masks of the source are real operations of the model  *)
(* and a value the code forgets to mask stays as wide as Python keeps it.  *)
(***************************************************************************)
EXTENDS Integers, Sequences, FiniteSets, TLC

VARIABLES gpr, pc, next_pc, hi, lo, cycles, rdram, rom, last, nops

cpuvars == <<gpr, pc, next_pc, hi, lo, cycles>>
vars == <<gpr, pc, next_pc, hi, lo, cycles, rdram, rom, last, nops>>

----------------------------------------------------------------------------
(* Unbounded naturals (Python int, non-negative)                           *)

Min(x, y) == IF x < y THEN x ELSE y
Max(x, y) == IF x < y THEN y ELSE x

RECURSIVE Norm(_)
Norm(s) ==
    IF s = << >> THEN << >>
    ELSE IF s[Len(s)] = 0 THEN Norm(SubSeq(s, 1, Len(s) - 1)) ELSE s

Digit(a, i) == IF i <= Len(a) THEN a[i] ELSE 0

RECURSIVE NumOf(_)
NumOf(n) == IF n = 0 THEN << >> ELSE <<n % 256>> \o NumOf(n \div 256)

RECURSIVE IntOf(_)
IntOf(a) == IF a = << >> THEN 0 ELSE a[1] + 256 * IntOf(Tail(a))

\* The 32-bit literal whose upper half is h and lower half is l.
Word(h, l) == Norm(<<l % 256, l \div 256, h % 256, h \div 256>>)

\* The 64-bit literal made of four 16-bit quarters, most significant first.
DWord(a, b, c, d) ==
    Norm(<<d % 256, d \div 256, c % 256, c \div 256,
           b % 256, b \div 256, a % 256, a \div 256>>)

RECURSIVE AddFrom(_, _, _, _)
AddFrom(a, b, i, c) ==
    IF i > Len(a) /\ i > Len(b)
    THEN IF c = 0 THEN << >> ELSE <<c>>
    ELSE LET t == Digit(a, i) + Digit(b, i) + c
         IN  <<t % 256>> \o AddFrom(a, b, i + 1, t \div 256)

Add(a, b) == AddFrom(a, b, 1, 0)

\* (a - b) & (256^n - 1): Python's difference may be negative, and & with a
\* non-negative mask then yields its n-digit two's complement.
RECURSIVE SubFrom(_, _, _, _, _)
SubFrom(a, b, i, borrow, n) ==
    IF i > n THEN << >>
    ELSE LET t == Digit(a, i) - Digit(b, i) - borrow
         IN  <<(t + 256) % 256>> \o SubFrom(a, b, i + 1, IF t < 0 THEN 1 ELSE 0, n)

SubMask(a, b, n) == Norm(SubFrom(a, b, 1, 0, n))

RECURSIVE BitAnd(_, _, _)
BitAnd(x, y, n) ==
    IF n = 0 THEN 0
    ELSE (x % 2) * (y % 2) + 2 * BitAnd(x \div 2, y \div 2, n - 1)

RECURSIVE BitOr(_, _, _)
BitOr(x, y, n) ==
    IF n = 0 THEN 0
    ELSE Max(x % 2, y % 2) + 2 * BitOr(x \div 2, y \div 2, n - 1)

And(a, b) == Norm([i \in 1..Min(Len(a), Len(b)) |-> BitAnd(a[i], b[i], 8)])

Or(a, b) == [i \in 1..Max(Len(a), Len(b)) |-> BitOr(Digit(a, i), Digit(b, i), 8)]

RECURSIVE Pow2(_)
Pow2(k) == IF k = 0 THEN 1 ELSE 2 * Pow2(k - 1)

\* a * m for a single digit m.
RECURSIVE MulDigitFrom(_, _, _, _)
MulDigitFrom(a, m, i, c) ==
    IF i > Len(a)
    THEN IF c = 0 THEN << >> ELSE <<c>>
    ELSE LET t == a[i] * m + c
         IN  <<t % 256>> \o MulDigitFrom(a, m, i + 1, t \div 256)

MulDigit(a, m) == IF m = 0 THEN << >> ELSE MulDigitFrom(a, m, 1, 0)

ShiftDigits(a, q) == IF a = << >> THEN << >> ELSE [i \in 1..q |-> 0] \o a

\* a << k
Shl(a, k) == ShiftDigits(MulDigit(a, Pow2(k % 8)), k \div 8)

\* a >> k
Shr(a, k) ==
    LET q == k \div 8
        r == k % 8
        d == IF q >= Len(a) THEN << >> ELSE SubSeq(a, q + 1, Len(a))
    IN  Norm([i \in 1..Len(d) |->
                (d[i] \div Pow2(r)) + (Digit(d, i + 1) % Pow2(r)) * Pow2(8 - r)])

RECURSIVE MulFrom(_, _, _)
MulFrom(a, b, i) ==
    IF i > Len(a) THEN << >>
    ELSE Add(MulDigit(b, a[i]), ShiftDigits(MulFrom(a, b, i + 1), 1))

Mul(a, b) == MulFrom(a, b, 1)

\* a < b
Less(a, b) ==
    IF Len(a) # Len(b) THEN Len(a) < Len(b)
    ELSE \E i \in 1..Len(a) :
            /\ a[i] < b[i]
            /\ \A j \in (i + 1)..Len(a) : a[j] = b[j]

Leq(a, b) == a = b \/ Less(a, b)

----------------------------------------------------------------------------
(* N64Memory                                                               *)

RDRAM_SIZE == 8 * 1024 * 1024
ROM_SIZE == 64 * 1024 * 1024

MASK32 == Word(\hFFFF, \hFFFF)
MASK64 == DWord(\hFFFF, \hFFFF, \hFFFF, \hFFFF)
PHYS_MASK == Word(\h1FFF, \hFFFF)
KSEG0_FIRST == Word(\h8000, \h0000)
KSEG0_LAST == Word(\h9FFF, \hFFFF)
KSEG1_FIRST == Word(\hA000, \h0000)
KSEG1_LAST == Word(\hBFFF, \hFFFF)

\* A byte arena of fixed length is kept as the function from the offsets of
\* its non-zero bytes to those bytes; every other offset below the length
\* holds 0.  A fresh bytearray(n) is the empty function.
EmptyArena == << >>

ByteAt(m, i) == IF i \in DOMAIN m THEN m[i] ELSE 0

\* m[p:p+4] = bs for a 4-byte bs with p + 4 <= len(m)
StoreBytes(m, p, bs) ==
    LET touched == p..(p + 3)
        dom == (DOMAIN m \ touched) \cup {i \in touched : bs[i - p + 1] # 0}
    IN  [i \in dom |-> IF i \in touched THEN bs[i - p + 1] ELSE m[i]]

\* struct.pack('<I', v): the little-endian layout.
pack_le(v) == <<Digit(v, 1), Digit(v, 2), Digit(v, 3), Digit(v, 4)>>

\* struct.pack('>I', v) for 0 <= v < 2^32
pack_be(v) == <<Digit(v, 4), Digit(v, 3), Digit(v, 2), Digit(v, 1)>>

\* struct.unpack('>I', bs)[0]
unpack_be(bs) == Norm(<<bs[4], bs[3], bs[2], bs[1]>>)

\* Translation that knows the cached window only.
virtual_to_physical_kseg0_only(address) ==
    LET a == And(address, MASK32)
    IN  IF Leq(KSEG0_FIRST, a) /\ Leq(a, KSEG0_LAST)
        THEN And(a, PHYS_MASK)
        ELSE a

virtual_to_physical(address) ==
    LET a == And(address, MASK32)
    IN  IF \/ Leq(KSEG0_FIRST, a) /\ Leq(a, KSEG0_LAST)
           \/ Leq(KSEG1_FIRST, a) /\ Leq(a, KSEG1_LAST)
        THEN And(a, PHYS_MASK)
        ELSE a

\* The bounds test on the first byte alone: p < len(self.rdram)
in_range_first_byte(p) == Less(p, NumOf(RDRAM_SIZE))

\* The bounds test of read32 and write32: p + 3 < len(self.rdram)
in_range(p) == Less(Add(p, NumOf(3)), NumOf(RDRAM_SIZE))

read32(m, address) ==
    LET p == virtual_to_physical(address)
    IN  IF in_range(p)
        THEN LET i == IntOf(p)
             IN  unpack_be(<<ByteAt(m, i), ByteAt(m, i + 1),
                             ByteAt(m, i + 2), ByteAt(m, i + 3)>>)
        ELSE << >>

write32(m, address, value) ==
    LET p == virtual_to_physical(address)
    IN  IF in_range(p)
        THEN StoreBytes(m, IntOf(p), pack_be(And(value, MASK32)))
        ELSE m

----------------------------------------------------------------------------
(* MIPSR4300i                                                              *)

NUM_GPR == 32
Regs == 0..(NUM_GPR - 1)

BOOT_PC == Word(\hA400, \h0040)
SIGN_FILL == DWord(\hFFFF, \hFFFF, \hFFFF, \h0000)
PC_REGION == Word(\hF000, \h0000)

\* The CPU object together with the arena its memory field refers to.
Machine ==
    [gpr |-> gpr, pc |-> pc, next_pc |-> next_pc, hi |-> hi, lo |-> lo,
     cycles |-> cycles, rdram |-> rdram]

\* The fields __init__ and reset assign.
reset_fields ==
    [gpr |-> [i \in Regs |-> << >>], pc |-> BOOT_PC,
     next_pc |-> Add(BOOT_PC, NumOf(4)), hi |-> << >>, lo |-> << >>, cycles |-> 0]

fetch(s) == read32(s.rdram, s.pc)

\* The field extraction at the head of decode_execute.
decode(ins) ==
    LET imm == And(ins, Word(0, \hFFFF))
    IN  [op |-> IntOf(And(Shr(ins, 26), NumOf(\h3F))),
         rs |-> IntOf(And(Shr(ins, 21), NumOf(\h1F))),
         rt |-> IntOf(And(Shr(ins, 16), NumOf(\h1F))),
         rd |-> IntOf(And(Shr(ins, 11), NumOf(\h1F))),
         sh |-> IntOf(And(Shr(ins, 6), NumOf(\h1F))),
         fn |-> IntOf(And(ins, NumOf(\h3F))),
         imm |-> imm,
         tgt |-> And(ins, Word(\h03FF, \hFFFF)),
         imm_se |-> IF And(imm, NumOf(\h8000)) # << >>
                    THEN Or(imm, SIGN_FILL) ELSE imm]

\* (self.pc & 0xF0000000) | (tgt << 2)
jump_target(p, tgt) == Or(And(p, PC_REGION), Shl(tgt, 2))

\* self.pc + (imm_se << 2): the offset taken from the branch itself.
branch_target_from_branch(p, imm_se) == Add(p, Shl(imm_se, 2))

\* self.pc + 4 + (imm_se << 2)
branch_target(p, imm_se) == Add(Add(p, NumOf(4)), Shl(imm_se, 2))

\* self.pc + 8
link_value(p) == Add(p, NumOf(8))

\* (x + y) & 0xFFFFFFFFFFFFFFFF
add64(x, y) == And(Add(x, y), MASK64)

\* (x - y) & 0xFFFFFFFF: the wrap at 32 bits instead of the register width.
sub32(x, y) == SubMask(x, y, 4)

\* (x - y) & 0xFFFFFFFFFFFFFFFF
sub64(x, y) == SubMask(x, y, 8)

\* r & 0xFFFFFFFF and (r >> 32) & 0xFFFFFFFF of r = x * y
mult_lo(x, y) == And(Mul(x, y), MASK32)
\* (r >> 16) & 0xFFFFFFFF: the high half taken at the wrong bit.
mult_hi_shift16(x, y) == And(Shr(Mul(x, y), 16), MASK32)

mult_hi(x, y) == And(Shr(Mul(x, y), 32), MASK32)

\* An unknown code answered the way the hardware does, by a jump to the
\* exception vector.
unknown_traps(s, d) == [s EXCEPT !.next_pc = Word(\h8000, \h0180)]

\* No branch of the if/elif chain matches: nothing is assigned.
unknown(s, d) == s

special(s, d) ==
    LET g == s.gpr
    IN  CASE d.fn = \h00 ->
                [s EXCEPT !.gpr[d.rd] = And(Shl(g[d.rt], d.sh), MASK64)]
          [] d.fn = \h02 ->
                [s EXCEPT !.gpr[d.rd] = And(Shr(g[d.rt], d.sh), MASK64)]
          [] d.fn = \h08 ->
                [s EXCEPT !.next_pc = g[d.rs]]
          [] d.fn = \h09 ->
                LET t == [s EXCEPT !.gpr[d.rd] = link_value(s.pc)]
                IN  [t EXCEPT !.next_pc = t.gpr[d.rs]]
          [] d.fn = \h12 ->
                [s EXCEPT !.gpr[d.rd] = s.lo]
          [] d.fn = \h18 ->
                [s EXCEPT !.lo = mult_lo(g[d.rs], g[d.rt]),
                          !.hi = mult_hi(g[d.rs], g[d.rt])]
          [] d.fn \in {\h20, \h21} ->
                [s EXCEPT !.gpr[d.rd] = add64(g[d.rs], g[d.rt])]
          [] d.fn \in {\h22, \h23} ->
                [s EXCEPT !.gpr[d.rd] = sub64(g[d.rs], g[d.rt])]
          [] d.fn = \h24 ->
                [s EXCEPT !.gpr[d.rd] = And(g[d.rs], g[d.rt])]
          [] d.fn = \h25 ->
                [s EXCEPT !.gpr[d.rd] = Or(g[d.rs], g[d.rt])]
          [] OTHER -> unknown(s, d)

\* The if/elif chain of decode_execute, between the two gpr[0] = 0.
dispatch(s, d) ==
    LET g == s.gpr
    IN  CASE d.op = \h00 -> special(s, d)
          [] d.op = \h02 ->
                [s EXCEPT !.next_pc = jump_target(s.pc, d.tgt)]
          [] d.op = \h03 ->
                [s EXCEPT !.gpr[31] = link_value(s.pc),
                          !.next_pc = jump_target(s.pc, d.tgt)]
          [] d.op = \h04 /\ g[d.rs] = g[d.rt] ->
                [s EXCEPT !.next_pc = branch_target(s.pc, d.imm_se)]
          [] d.op = \h05 /\ g[d.rs] # g[d.rt] ->
                [s EXCEPT !.next_pc = branch_target(s.pc, d.imm_se)]
          [] d.op \in {\h08, \h09} ->
                [s EXCEPT !.gpr[d.rt] = add64(g[d.rs], d.imm_se)]
          [] d.op = \h0C ->
                [s EXCEPT !.gpr[d.rt] = And(g[d.rs], d.imm)]
          [] d.op = \h0D ->
                [s EXCEPT !.gpr[d.rt] = Or(g[d.rs], d.imm)]
          [] d.op = \h0F ->
                [s EXCEPT !.gpr[d.rt] = And(Shl(d.imm, 16), MASK64)]
          [] d.op = \h23 ->
                [s EXCEPT !.gpr[d.rt] = read32(s.rdram, Add(g[d.rs], d.imm_se))]
          [] d.op = \h2B ->
                [s EXCEPT !.rdram = write32(s.rdram, Add(g[d.rs], d.imm_se), g[d.rt])]
          [] d.op \in {\h04, \h05} -> s
          [] OTHER -> unknown(s, d)

\* self.gpr[0] = 0
zero_r0(s) == [s EXCEPT !.gpr[0] = << >>]

\* decode_execute without its closing gpr[0] = 0.
finish_without_zero(s) == [s EXCEPT !.cycles = @ + 1]

\* self.gpr[0] = 0; self.cycles += 1, the last line of decode_execute
finish(s) == [zero_r0(s) EXCEPT !.cycles = @ + 1]

decode_execute(s, ins) == finish(dispatch(zero_r0(s), decode(ins)))

\* step: the machine after fetch, decode_execute and the PC advance
step(s) ==
    LET t == decode_execute(s, fetch(s))
    IN  [t EXCEPT !.pc = t.next_pc, !.next_pc = Add(t.next_pc, NumOf(4))]

----------------------------------------------------------------------------
(* Operations.  last records the operation that produced the state: its    *)
(* name, its arguments, its return value and the machine it started from.  *)

Record(op, ins, addr, value, ret) ==
    [op |-> op, ins |-> ins, addr |-> addr, value |-> value, ret |-> ret,
     pre |-> Machine]

Commit(t) ==
    /\ gpr' = t.gpr
    /\ pc' = t.pc
    /\ next_pc' = t.next_pc
    /\ hi' = t.hi
    /\ lo' = t.lo
    /\ cycles' = t.cycles
    /\ rdram' = t.rdram

\* reset that forgets the accumulator pair.
Reset_keeping_hi_lo ==
    /\ gpr' = reset_fields.gpr
    /\ pc' = reset_fields.pc
    /\ next_pc' = reset_fields.next_pc
    /\ cycles' = reset_fields.cycles
    /\ last' = Record("reset", << >>, << >>, << >>, << >>)
    /\ nops' = nops + 1
    /\ UNCHANGED <<hi, lo, rdram, rom>>

Reset ==
    /\ gpr' = reset_fields.gpr
    /\ pc' = reset_fields.pc
    /\ next_pc' = reset_fields.next_pc
    /\ hi' = reset_fields.hi
    /\ lo' = reset_fields.lo
    /\ cycles' = reset_fields.cycles
    /\ last' = Record("reset", << >>, << >>, << >>, << >>)
    /\ nops' = nops + 1
    /\ UNCHANGED <<rdram, rom>>

DecodeExecute(ins) ==
    /\ Commit(decode_execute(Machine, ins))
    /\ last' = Record("decode_execute", ins, << >>, << >>, << >>)
    /\ nops' = nops + 1
    /\ UNCHANGED rom

Step ==
    /\ Commit(step(Machine))
    /\ last' = Record("step", fetch(Machine), << >>, << >>, << >>)
    /\ nops' = nops + 1
    /\ UNCHANGED rom

VirtualToPhysical(address) ==
    /\ last' = Record("virtual_to_physical", << >>, address, << >>,
                      virtual_to_physical(address))
    /\ nops' = nops + 1
    /\ UNCHANGED <<cpuvars, rdram, rom>>

Read32(address) ==
    /\ last' = Record("read32", << >>, address, << >>, read32(rdram, address))
    /\ nops' = nops + 1
    /\ UNCHANGED <<cpuvars, rdram, rom>>

Write32(address, value) ==
    /\ rdram' = write32(rdram, address, value)
    /\ last' = Record("write32", << >>, address, value, << >>)
    /\ nops' = nops + 1
    /\ UNCHANGED <<cpuvars, rom>>

----------------------------------------------------------------------------
(* Instruction words                                                       *)

RType(rs, rt, rd, sh, fn) == Word(rs * 32 + rt, rd * 2048 + sh * 64 + fn)
IType(op, rs, rt, imm) == Word(op * 1024 + rs * 32 + rt, imm)
JType(op, tgt) == Word(op * 1024 + tgt \div 65536, tgt % 65536)

\* Mnemonics of the two dispatch tables, as instruction words.
SLL(rd, rt, sh) == RType(0, rt, rd, sh, \h00)
SRL(rd, rt, sh) == RType(0, rt, rd, sh, \h02)
JR(rs) == RType(rs, 0, 0, 0, \h08)
JALR(rd, rs) == RType(rs, 0, rd, 0, \h09)
MFLO(rd) == RType(0, 0, rd, 0, \h12)
MULT(rs, rt) == RType(rs, rt, 0, 0, \h18)
ADD(rd, rs, rt) == RType(rs, rt, rd, 0, \h20)
ADDU(rd, rs, rt) == RType(rs, rt, rd, 0, \h21)
SUB(rd, rs, rt) == RType(rs, rt, rd, 0, \h22)
SUBU(rd, rs, rt) == RType(rs, rt, rd, 0, \h23)
AND(rd, rs, rt) == RType(rs, rt, rd, 0, \h24)
OR(rd, rs, rt) == RType(rs, rt, rd, 0, \h25)
J(tgt) == JType(\h02, tgt)
JAL(tgt) == JType(\h03, tgt)
BEQ(rs, rt, imm) == IType(\h04, rs, rt, imm)
BNE(rs, rt, imm) == IType(\h05, rs, rt, imm)
ADDI(rt, rs, imm) == IType(\h08, rs, rt, imm)
ADDIU(rt, rs, imm) == IType(\h09, rs, rt, imm)
ANDI(rt, rs, imm) == IType(\h0C, rs, rt, imm)
ORI(rt, rs, imm) == IType(\h0D, rs, rt, imm)
LUI(rt, imm) == IType(\h0F, 0, rt, imm)
LW(rt, imm, rs) == IType(\h23, rs, rt, imm)
SW(rt, imm, rs) == IType(\h2B, rs, rt, imm)

----------------------------------------------------------------------------
(* Starting states.  Each is built from the construction state with the    *)
(* operations of the program: write32 calls that fill the arena, reset,    *)
(* the direct register assignments the test harness makes (c.gpr[1] = ..), *)
(* and, to bring the PC to a loaded program, decode_execute of a J         *)
(* followed by one step.                                                   *)

RECURSIVE Load(_, _, _)
Load(m, base, ws) ==
    IF ws = << >> THEN m
    ELSE Load(write32(m, base, Head(ws)), Add(base, NumOf(4)), Tail(ws))

\* The machine after reset() and c.gpr[1] = r1; c.gpr[2] = r2, over arena m.
Poked(r1, r2, m) ==
    [gpr |-> [reset_fields.gpr EXCEPT ![1] = r1, ![2] = r2],
     pc |-> reset_fields.pc, next_pc |-> reset_fields.next_pc,
     hi |-> reset_fields.hi, lo |-> reset_fields.lo,
     cycles |-> reset_fields.cycles, rdram |-> m]

StartAt(s, op, ins, before) ==
    /\ gpr = s.gpr
    /\ pc = s.pc
    /\ next_pc = s.next_pc
    /\ hi = s.hi
    /\ lo = s.lo
    /\ cycles = s.cycles
    /\ rdram = s.rdram
    /\ rom = EmptyArena
    /\ nops = 0
    /\ last = [op |-> op, ins |-> ins, addr |-> << >>, value |-> << >>,
               ret |-> << >>, pre |-> before]

\* The construction state: N64Memory() and MIPSR4300i(mem).
Constructed == Poked(<< >>, << >>, EmptyArena)

\* A program image with every entry of both dispatch tables, the unknown
\* opcodes and function codes, and jumps in every form.
Program ==
    << JAL(\h40), J(\h10), BEQ(1, 2, 3), BNE(1, 2, \hFFFE),
       JR(1), JALR(31, 1), JALR(1, 1), IType(\h3F, 1, 2, \h1234),
       RType(1, 2, 3, 4, \h3F), IType(\h01, 1, 3, 5), ADDI(1, 0, \hFFFC), JR(1),
       SW(2, 0, 1), LW(3, 0, 1), ADD(3, 1, 2), MULT(1, 2),
       MFLO(3), LUI(3, \h1234), ORI(3, 1, \hFF00), ANDI(3, 1, \hF0F0),
       SLL(3, 1, 31), SRL(3, 1, 4), SUB(3, 1, 2), JALR(0, 0),
       ADDIU(3, 1, \h8000), AND(3, 1, 2), OR(3, 1, 2), SUBU(3, 2, 1),
       ADDU(3, 1, 2), BEQ(0, 0, \hFFFF), SW(2, \hFFFC, 0), LW(3, \h7FFC, 2) >>

\* The arena after write32 of each word of Program, from offset 0 up.
ImageLow == Load(EmptyArena, KSEG1_FIRST, SubSeq(Program, 1, 16))
Image == Load(ImageLow, Word(\hA000, \h0040), SubSeq(Program, 17, Len(Program)))

\* The same operations with register 0 as their destination.
TargetZero ==
    { SLL(0, 1, 4), SRL(0, 1, 4), JALR(0, 1), MFLO(0), ADD(0, 1, 2),
      ADDU(0, 1, 2), SUB(0, 1, 2), SUBU(0, 1, 2), AND(0, 1, 2), OR(0, 1, 2),
      ADDI(0, 0, 5), ADDIU(0, 1, 1), ANDI(0, 1, \hFFFF), ORI(0, 1, 1),
      LUI(0, \h1234), LW(0, 0, 1) }

InsSet == {Program[i] : i \in DOMAIN Program} \cup TargetZero

\* Register contents the starting states draw from: (gpr[1], gpr[2]).
Pokes ==
    { <<NumOf(100), NumOf(\hFF00)>>,
      <<NumOf(200), NumOf(200)>>,
      <<Word(\h8000, \h0004), Word(\h1234, \h5678)>> }

MaxOps == 2

Init ==
    \/ StartAt(Constructed, "init", << >>, Constructed)
    \/ \E r \in Pokes :
          StartAt(Poked(r[1], r[2], Image), "init", << >>, Poked(r[1], r[2], Image))

Next ==
    \/ nops < MaxOps /\ Reset
    \/ nops < MaxOps /\ Step
    \/ \E ins \in InsSet : nops < MaxOps /\ DecodeExecute(ins)

Spec == Init /\ [][Next]_vars

----------------------------------------------------------------------------
(* Stepping a loaded program: the starting states are the machines one     *)
(* decode_execute(J k) and one step() after reset, so that the PC is at    *)
(* word k of the image and next_pc = pc + 4, and the only operations from  *)
(* there on are step and reset.                                            *)

Entries == 0..(Len(Program) - 1)

MaxSteps == 4

InitStep ==
    \/ StartAt(Constructed, "init", << >>, Constructed)
    \/ \E r \in Pokes, k \in Entries :
          LET launched == step(decode_execute(Poked(r[1], r[2], Image), J(k)))
          IN  StartAt(launched, "init", << >>, launched)

NextStep ==
    \/ nops < MaxSteps /\ Reset
    \/ nops < MaxSteps /\ Step

SpecStep == InitStep /\ [][NextStep]_vars

----------------------------------------------------------------------------
(* The arithmetic instructions on 32-bit operands: the starting states are *)
(* the machines after reset with gpr[1] and gpr[2] assigned, as the test   *)
(* harness does before MULT, and the only operation is decode_execute.     *)

Val32 ==
    { << >>, NumOf(1), NumOf(100), NumOf(200), NumOf(\hFF00),
      Word(\h7FFF, \hFFFF), Word(\h8000, \h0000), Word(\hFFFF, \hFFFF) }

AluIns ==
    { ADD(3, 1, 2), ADDU(3, 1, 2), SUB(3, 1, 2), SUBU(3, 1, 2),
      ADD(1, 1, 2), SUBU(2, 1, 2), SUB(3, 2, 1), ADDU(31, 2, 2),
      MULT(1, 2), MULT(2, 2), MFLO(3), MFLO(1) }

InitAlu ==
    \E a \in Val32, b \in Val32 :
        StartAt(Poked(a, b, EmptyArena), "init", << >>, Poked(a, b, EmptyArena))

NextAlu == \E ins \in AluIns : nops < MaxOps /\ DecodeExecute(ins)

SpecAlu == InitAlu /\ [][NextAlu]_vars

----------------------------------------------------------------------------
(* The memory unit: translation, word reads and word writes called         *)
(* directly, the loads and stores of the CPU, and step (whose fetch is a   *)
(* read at the PC).                                                        *)

AddrSet ==
    { << >>, Word(\h8000, \h0000), Word(\hA000, \h0000), Word(\h9FFF, \hFFFF),
      Word(\hBFFF, \hFFFF), Word(\h0000, \h1234), Word(\h7FFF, \hFFFF),
      Word(\hC000, \h0000), Word(\h007F, \hFFFC), Word(\h007F, \hFFFD),
      Word(\h0080, \h0000), Word(\hA400, \h0040), Word(\hFFFF, \hFFFF),
      DWord(0, 1, 0, 2), Word(\h807F, \hFFFC) }

MemAddrs ==
    { << >>, Word(\hA000, \h0000), DWord(0, 1, 0, 2), Word(\h007F, \hFFFC),
      Word(\h007F, \hFFFD), Word(\h807F, \hFFFE), Word(\hA400, \h0040),
      Word(\hFFFF, \hFFFF) }

ValSet == { << >>, Word(\h1234, \h5678), Word(\hFFFF, \hFFFF), DWord(0, \hAB, \h8000, \h00FF) }

MemPokes ==
    { <<Word(\h007F, \hFFFD), Word(\h1234, \h5678)>>,
      <<Word(\h8000, \h0004), DWord(0, \hAB, \h8000, \h00FF)>> }

MemIns == { LW(3, 0, 1), LW(2, 0, 1), SW(2, 0, 1), LW(3, \hFFFF, 1), SW(2, \hFFFF, 1) }

InitMem ==
    \E r \in MemPokes, m \in {EmptyArena, Image} :
        StartAt(Poked(r[1], r[2], m), "init", << >>, Poked(r[1], r[2], m))

NextMem ==
    \/ \E a \in AddrSet : nops < MaxOps /\ VirtualToPhysical(a)
    \/ \E a \in MemAddrs : nops < MaxOps /\ Read32(a)
    \/ \E a \in MemAddrs, v \in ValSet : nops < MaxOps /\ Write32(a, v)
    \/ \E ins \in MemIns : nops < MaxOps /\ DecodeExecute(ins)
    \/ nops < MaxOps /\ Step

SpecMem == InitMem /\ [][NextMem]_vars

----------------------------------------------------------------------------
(* Properties                                                              *)

\* What the last operation's dispatch left in the registers before the
\* closing gpr[0] = 0 of decode_execute.
Dispatched == dispatch(zero_r0(last.pre), decode(last.ins))

\* C1: general-purpose register 0 is zero in every state, whatever
\* instruction word decode_execute or step has just executed.
C1_RegisterZero == gpr[0] = << >>

\* C1 witness: an instruction has just written a non-zero value through
\* index 0 and register 0 reads as zero.
C1_Witness ==
    /\ last.op \in {"decode_execute", "step"}
    /\ Dispatched.gpr[0] # << >>
    /\ gpr[0] = << >>

\* C5: after reset the CPU is in the construction state: PC 0xA4000040,
\* next PC 0xA4000044, every register, HI, LO and the cycle counter 0.
C5_ResetRestores ==
    last.op = "reset" =>
        /\ pc = Word(\hA400, \h0040)
        /\ next_pc = Word(\hA400, \h0044)
        /\ \A i \in 0..31 : gpr[i] = << >>
        /\ hi = << >>
        /\ lo = << >>
        /\ cycles = 0
        /\ <<gpr, pc, next_pc, hi, lo, cycles>>
             = <<Constructed.gpr, Constructed.pc, Constructed.next_pc,
                 Constructed.hi, Constructed.lo, Constructed.cycles>>

\* C5 witness: reset has acted on a machine in which the PC pair, two
\* registers, HI, LO and the cycle counter all differed from their
\* construction values.
C5_Witness ==
    /\ last.op = "reset"
    /\ last.pre.pc # Word(\hA400, \h0040)
    /\ last.pre.next_pc # Word(\hA400, \h0044)
    /\ last.pre.gpr[1] # << >>
    /\ last.pre.gpr[2] # << >>
    /\ last.pre.hi # << >>
    /\ last.pre.lo # << >>
    /\ last.pre.cycles > 0


\* The fields of the instruction word of the last decode_execute or step.
Dec == decode(last.ins)

Executed == last.op \in {"decode_execute", "step"}

TWO32 == <<0, 0, 0, 0, 1>>
TWO64 == <<0, 0, 0, 0, 0, 0, 0, 0, 1>>

\* v mod 2^32 and v mod 2^64, read off the digits of v.
Low32(v) == Norm(SubSeq(v, 1, Min(Len(v), 4)))
Low64(v) == Norm(SubSeq(v, 1, Min(Len(v), 8)))

\* r = (a + b) mod 2^64 and r = (a - b) mod 2^64, stated by what r must
\* add up to.
IsSumMod64(r, a, b) ==
    /\ Less(r, TWO64)
    /\ \E q \in {<< >>, TWO64} : Add(r, q) = Add(a, b)
IsDifferenceMod64(r, a, b) ==
    /\ Less(r, TWO64)
    /\ \E q \in {<< >>, TWO64} : Add(r, b) = Add(a, q)

\* C2: with 32-bit values a = reg[rs] and b = reg[rt] and rd # 0, ADD/ADDU
\* leave reg[rd] = (a + b) mod 2^64 and SUB/SUBU leave reg[rd] =
\* (a - b) mod 2^64; ADD and ADDU leave the same machine, as do SUB and
\* SUBU; the instruction completes (one cycle is counted).
C2_AddSub ==
    LET a == last.pre.gpr[Dec.rs]
        b == last.pre.gpr[Dec.rt]
        twin == RType(Dec.rs, Dec.rt, Dec.rd, Dec.sh,
                      CASE Dec.fn = \h20 -> \h21 [] Dec.fn = \h21 -> \h20
                        [] Dec.fn = \h22 -> \h23 [] Dec.fn = \h23 -> \h22)
    IN  ( /\ last.op = "decode_execute"
          /\ Dec.op = 0
          /\ Dec.fn \in {\h20, \h21, \h22, \h23}
          /\ Dec.rd # 0
          /\ Less(a, TWO32)
          /\ Less(b, TWO32) )
        => /\ Dec.fn \in {\h20, \h21} => IsSumMod64(gpr[Dec.rd], a, b)
           /\ Dec.fn \in {\h22, \h23} => IsDifferenceMod64(gpr[Dec.rd], a, b)
           /\ decode_execute(last.pre, twin) = Machine
           /\ cycles = last.pre.cycles + 1

\* C2 witness: a SUB or SUBU of 32-bit operands with b > a has wrapped to a
\* value with bit 63 set.
C2_Witness ==
    /\ last.op = "decode_execute"
    /\ Dec.op = 0
    /\ Dec.fn \in {\h22, \h23}
    /\ Dec.rd # 0
    /\ Less(last.pre.gpr[Dec.rt], TWO32)
    /\ Less(last.pre.gpr[Dec.rs], last.pre.gpr[Dec.rt])
    /\ Len(gpr[Dec.rd]) = 8

\* Whether the word access at address is in range: its translated offset p
\* has p + 4 <= 8 MiB.
WordInRange(address) ==
    Leq(Add(virtual_to_physical(address), NumOf(4)), Word(\h0080, \h0000))

\* C3: after write32(addr, v) at an address that translates in range,
\* read32(addr) returns v mod 2^32, the four bytes at the offset are v's
\* big-endian bytes and every other byte of the arena is unchanged.
C3_WriteReadRoundTrip ==
    LET p == IntOf(virtual_to_physical(last.addr))
        v == Low32(last.value)
    IN  (last.op = "write32" /\ WordInRange(last.addr))
        => /\ read32(rdram, last.addr) = v
           /\ ByteAt(rdram, p) = Digit(v, 4)
           /\ ByteAt(rdram, p + 1) = Digit(v, 3)
           /\ ByteAt(rdram, p + 2) = Digit(v, 2)
           /\ ByteAt(rdram, p + 3) = Digit(v, 1)
           /\ \A i \in (DOMAIN rdram \cup DOMAIN last.pre.rdram) \ (p..(p + 3)) :
                 ByteAt(rdram, i) = ByteAt(last.pre.rdram, i)
           /\ rom = EmptyArena

\* C3 witness: an in-range write of a value wider than 32 bits has replaced
\* non-zero bytes of the arena.
C3_Witness ==
    /\ last.op = "write32"
    /\ WordInRange(last.addr)
    /\ Len(last.value) > 4
    /\ last.pre.rdram # EmptyArena
    /\ rdram # last.pre.rdram
    /\ read32(last.pre.rdram, last.addr) # << >>

\* The translation the memory map defines, read off the digits of the
\* address: the low 32 bits, with the top three bits cleared when they lie
\* in 0x80000000..0xBFFFFFFF.
Translated(address) ==
    LET a == Low32(address)
    IN  IF Digit(a, 4) \in 128..191
        THEN Norm(<<Digit(a, 1), Digit(a, 2), Digit(a, 3), Digit(a, 4) % 32>>)
        ELSE a

\* C4: virtual_to_physical returns a & 0x1FFFFFFF for a 32-bit-masked
\* address a in 0x80000000..0xBFFFFFFF and a itself otherwise, so the two
\* windows share their offsets, and the call changes no state.
C4_Translation ==
    /\ virtual_to_physical(Word(\h8000, \h0000)) = << >>
    /\ virtual_to_physical(Word(\hA000, \h0000)) = << >>
    /\ virtual_to_physical(Word(\h9FFF, \hFFFF)) = Word(\h1FFF, \hFFFF)
    /\ virtual_to_physical(Word(\hBFFF, \hFFFF)) = Word(\h1FFF, \hFFFF)
    /\ virtual_to_physical(Word(\h0000, \h1234)) = Word(\h0000, \h1234)
    /\ last.op = "virtual_to_physical"
        => /\ last.ret = Translated(last.addr)
           /\ Machine = last.pre
           /\ rom = EmptyArena

\* C4 witness: the uncached-window address 0xBFFFFFFF has been translated
\* to 0x1FFFFFFF.
C4_Witness ==
    /\ last.op = "virtual_to_physical"
    /\ last.addr = Word(\hBFFF, \hFFFF)
    /\ last.ret = Word(\h1FFF, \hFFFF)

\* C6: at an address that translates out of range, read32 returns 0 and
\* write32 leaves the arena unchanged; LW from such an address loads 0, SW
\* to it changes no memory, and a step whose PC is such an address fetches
\* the word 0.  Every such operation completes.
C6_OutOfRange ==
    LET ea == Add(last.pre.gpr[Dec.rs], Dec.imm_se)
    IN  /\ (last.op = "read32" /\ ~WordInRange(last.addr))
            => last.ret = << >> /\ rdram = last.pre.rdram
        /\ (last.op = "write32" /\ ~WordInRange(last.addr))
            => rdram = last.pre.rdram
        /\ (Executed /\ Dec.op = \h23 /\ ~WordInRange(ea))
            => gpr[Dec.rt] = << >> /\ cycles = last.pre.cycles + 1
        /\ (Executed /\ Dec.op = \h2B /\ ~WordInRange(ea))
            => rdram = last.pre.rdram /\ cycles = last.pre.cycles + 1
        /\ (last.op = "step" /\ ~WordInRange(last.pre.pc))
            => last.ins = << >> /\ cycles = last.pre.cycles + 1

\* C6 witness: an LW whose address translates to the last three bytes of a
\* non-empty arena has loaded 0 into a register that held another value.
C6_Witness ==
    /\ last.op = "decode_execute"
    /\ Dec.op = \h23
    /\ Dec.rt # 0
    /\ ~WordInRange(Add(last.pre.gpr[Dec.rs], Dec.imm_se))
    /\ ByteAt(rdram, RDRAM_SIZE - 1) # 0
    /\ last.pre.gpr[Dec.rt] # << >>
    /\ gpr[Dec.rt] = << >>

\* C9: MULT of 32-bit values a and b leaves LO = (a * b) mod 2^32 and
\* HI = floor((a * b) / 2^32), so HI * 2^32 + LO = a * b, and changes no
\* register; MFLO rd with rd # 0 leaves reg[rd] = LO, HI and LO unchanged
\* (100 * 200 gives 20000).
C9_MultMflo ==
    LET a == last.pre.gpr[Dec.rs]
        b == last.pre.gpr[Dec.rt]
    IN  /\ ( /\ last.op = "decode_execute"
             /\ Dec.op = 0
             /\ Dec.fn = \h18
             /\ Less(a, TWO32)
             /\ Less(b, TWO32) )
            => /\ Less(lo, TWO32)
               /\ Less(hi, TWO32)
               /\ Add(Shl(hi, 32), lo) = Mul(a, b)
               /\ (Less(a, NumOf(256)) /\ Less(b, NumOf(256)))
                     => (hi = << >> /\ IntOf(lo) = IntOf(a) * IntOf(b))
               /\ (a = NumOf(100) /\ b = NumOf(200)) => lo = NumOf(20000)
               /\ gpr = last.pre.gpr
        /\ (last.op = "decode_execute" /\ Dec.op = 0 /\ Dec.fn = \h12 /\ Dec.rd # 0)
            => /\ gpr[Dec.rd] = last.pre.lo
               /\ lo = last.pre.lo
               /\ hi = last.pre.hi

\* C9 witness: MFLO has copied into a register the low word of a product
\* whose high word is not zero.
C9_Witness ==
    /\ last.op = "decode_execute"
    /\ Dec.op = 0
    /\ Dec.fn = \h12
    /\ Dec.rd # 0
    /\ hi # << >>
    /\ lo # << >>
    /\ gpr[Dec.rd] = lo
    /\ last.pre.gpr[Dec.rd] # lo


KnownOps == {\h00, \h02, \h03, \h04, \h05, \h08, \h09, \h0C, \h0D, \h0F, \h23, \h2B}
KnownFns == {\h00, \h02, \h08, \h09, \h12, \h18, \h20, \h21, \h22, \h23, \h24, \h25}

UnknownCode == Dec.op \notin KnownOps \/ (Dec.op = 0 /\ Dec.fn \notin KnownFns)

\* C7: a step that executes a word whose opcode is not in the opcode table,
\* or whose opcode is 0 with a function code not in the SPECIAL table,
\* leaves the registers, HI, LO and both arenas unchanged, moves the PC to
\* the old next PC, which is the old PC + 4, and counts one cycle.
C7_UnknownIsNoOp ==
    (last.op = "step" /\ UnknownCode)
    => /\ gpr = last.pre.gpr
       /\ hi = last.pre.hi
       /\ lo = last.pre.lo
       /\ rdram = last.pre.rdram
       /\ rom = EmptyArena
       /\ pc = last.pre.next_pc
       /\ pc = Add(last.pre.pc, NumOf(4))
       /\ cycles = last.pre.cycles + 1

\* C7 witness: a step has executed a word with an opcode outside the table
\* whose register fields name registers that hold values.
C7_Witness ==
    /\ last.op = "step"
    /\ Dec.op \notin KnownOps
    /\ gpr[Dec.rs] # << >>
    /\ gpr[Dec.rt] # << >>
    /\ pc = Add(last.pre.pc, NumOf(4))

\* The immediate sign-extended to the 64-bit register width, as the
\* unsigned value imm + 0xFFFFFFFFFFFF0000 when bit 15 is set.
SignExtended(imm) ==
    IF Digit(imm, 2) >= 128 THEN Add(imm, DWord(\hFFFF, \hFFFF, \hFFFF, 0)) ELSE imm

\* The successor the executed instruction chooses for the PC p, with
\* registers g; jalr is the successor JALR is said to choose.
Successor(p, g, jalr) ==
    CASE Dec.op \in {\h02, \h03} ->
            Or(And(p, Word(\hF000, 0)), Shl(Dec.tgt, 2))
      [] (Dec.op = \h04 /\ g[Dec.rs] = g[Dec.rt])
         \/ (Dec.op = \h05 /\ g[Dec.rs] # g[Dec.rt]) ->
            Add(Add(p, NumOf(4)), Shl(SignExtended(Dec.imm), 2))
      [] Dec.op = 0 /\ Dec.fn = \h08 -> g[Dec.rs]
      [] Dec.op = 0 /\ Dec.fn = \h09 -> jalr
      [] OTHER -> Add(p, NumOf(4))

Sequencing(jalr) ==
    /\ last.op \in {"init", "reset", "step"} => next_pc = Add(pc, NumOf(4))
    /\ last.op = "step"
        => /\ pc = Successor(last.pre.pc, last.pre.gpr, jalr)
           /\ last.ins = read32(last.pre.rdram, last.pre.pc)

C10_RegistersFixedWidth ==
    /\ \A i \in 0..31 : Less(gpr[i], TWO64)
    /\ Less(hi, TWO32)
    /\ Less(lo, TWO32)

\* C11: the program counter is a 32-bit address: in every state reached by
\* steps from construction or reset, 0 <= pc < 2^32 and 0 <= next_pc < 2^32,
\* also after advancing past the top of the address space, after a taken
\* BEQ/BNE with a negative offset and after JR/JALR to a register value.
C11_PcIs32Bit ==
    /\ Less(pc, TWO32)
    /\ Less(next_pc, TWO32)

====
